---------------------------- MODULE Spec2Model ----------------------------
(***************************************************************************)
(* The episodic TD(0) trainer of 8_Reinforcement/8.4_Q-Network.ipynb: a    *)
(* linear Q-network without bias, trained online with epsilon-greedy       *)
(* exploration, under a try / except KeyboardInterrupt.                    *)
(*                                                                         *)
(* Real numbers (float tensors, Python floats) are fixed-point integers in *)
(* units of 1/Scale, every product and quotient rounded to the nearest     *)
(* unit.  Indices (states, actions, i, j) and the 0/1 rewards are plain    *)
(* integers.  The control position pc names the statement executed next;   *)
(* every statement of the try block is a step of its own, so that a        *)
(* KeyboardInterrupt can be raised between any two of them.  A name that   *)
(* has no value yet (not assigned, or a gradient that is None) is in the   *)
(* set unset, and its variable holds a placeholder.                        *)
(***************************************************************************)
EXTENDS Integers, Sequences, FiniteSets

(* ------------------------------ bounds -------------------------------- *)

\* largest episode budget num_episodes the runs are started with (the
\* notebook runs 1000)
MaxEpisodes == 2

\* step cap of an episode (the notebook runs 100)
episode_limit == 2

\* how many of the values of [0, 0.01) an initial weight is drawn from:
\* InitLevels values spread evenly from the lowest to the highest
InitLevels == 2

\* env.observation_space.n: the cells of the lake (the 4x4 map of the
\* notebook has 16)
n_inputs == 2

\* env.action_space.n: the moves (the notebook's lake has 4: left, down,
\* right, up)
n_outputs == 2

\* largest vector length the one-hot encoder is applied to on its own
MaxOneHotLen == 12

\* largest episode budget the decay factor is evaluated for on its own
MaxDecayN == 40

(* ----------------------- numbers and hyperparameters ------------------- *)

\* one unit of a float is 1/Scale
Scale == 1000

\* learning_rate = 0.1
learning_rate == 100

\* gamma = 0.99
gamma == 990

\* epsilon_start = 1.0
epsilon_start == 1000

\* upper end 0.01 of the uniform weight initialisation
w_init_high == 10

States == 0 .. (n_inputs - 1)

Actions == 0 .. (n_outputs - 1)

\* x / d rounded to the nearest integer (d > 0)
RDiv(x, d) == (2 * x + d) \div (2 * d)

\* product of two fixed-point numbers
Mul(x, y) == RDiv(x * y, Scale)

\* quotient of two fixed-point numbers
Quot(x, y) == RDiv(x * Scale, y)

\* the weights torch.nn.init.uniform_(weight, 0, 0.01) may draw, per entry:
\* of the units 0 .. w_init_high - 1, InitLevels evenly spread ones
InitVals ==
  {(k * (w_init_high - 1)) \div (InitLevels - 1) : k \in 0 .. (InitLevels - 1)}

\* the values np.random.rand() is drawn from: the least, a middle one and
\* the greatest of [0, 1)
RandDraws == {0, Scale \div 2, Scale - 1}

\* the names the try block assigns, and the gradient of the weight
Names == {"epsilon", "rewards", "lengths", "losses", "epsilons", "i", "s",
          "ep_reward", "ep_loss", "j", "Q", "a", "s1", "r", "done", "Q1",
          "q_target", "loss", "grad"}

\* pc: the statement executed next; intAt: where the KeyboardInterrupt was
\* raised ("" if none); unset: the names without a value; W: qnet.out.weight,
\* shape (n_outputs, n_inputs); grad: qnet.out.weight.grad; W_before and upd:
\* history, the weights before the latest optimizer step and the step's
\* state, action, prediction and target; oh: the one-hot encoder applied on
\* its own, input and output; the others are the names of the cell
VARIABLES
  pc, intAt, unset, num_episodes, i, j, s, a, s1, r, done, W, grad,
  W_before, upd, Q, Q1, q_target, loss, epsilon, ep_reward, ep_loss,
  rewards, lengths, losses, epsilons, oh

vars == <<pc, intAt, unset, num_episodes, i, j, s, a, s1, r, done, W, grad,
          W_before, upd, Q, Q1, q_target, loss, epsilon, ep_reward,
          ep_loss, rewards, lengths, losses, epsilons, oh>>

\* a weight-shaped tensor of zeros (stands for a gradient that is None)
ZeroMat == [b \in Actions |-> [k \in States |-> 0]]

\* a one-row tensor of zeros
ZeroRow == <<[b \in Actions |-> 0]>>

(* ----------------------------- pure functions -------------------------- *)

\* mutant of one_hot: the column counted from 1 instead of 0
one_hot_from_one(idx, l) ==
  [raised |-> "",
   a |-> [rr \in 1 .. Len(idx) |->
            [k \in 0 .. (l - 1) |-> IF k = idx[rr] + 1 THEN 1 ELSE 0]]]

\* a = np.zeros((len(i), l)); a[range(len(i)), i] = 1; return a.
\* rows are 1..Len(idx), columns 0..l-1; a negative index counts from the
\* end, as numpy does; an index outside -l .. l-1 raises IndexError and
\* nothing is returned
one_hot(idx, l) ==
  IF \E rr \in 1 .. Len(idx) : idx[rr] < 0 - l \/ idx[rr] >= l
    THEN [raised |-> "IndexError", a |-> <<>>]
    ELSE [raised |-> "",
          a |-> [rr \in 1 .. Len(idx) |->
                   [k \in 0 .. (l - 1) |->
                      IF k = (IF idx[rr] < 0 THEN idx[rr] + l ELSE idx[rr])
                        THEN 1 ELSE 0]]]

\* torch.from_numpy(x).float()
ToTensor(x) == [rr \in DOMAIN x |-> [k \in DOMAIN x[rr] |-> x[rr][k] * Scale]]

RECURSIVE Dot(_, _, _)
\* sum over k = 0..n of u[k] * v[k]
Dot(u, v, n) == IF n < 0 THEN 0 ELSE Mul(u[n], v[n]) + Dot(u, v, n - 1)

\* QNetwork.forward: nn.Linear without bias, x @ weight.T
forward(Wt, x) ==
  [rr \in DOMAIN x |-> [b \in Actions |-> Dot(Wt[b], x[rr], n_inputs - 1)]]

\* torch.from_numpy(one_hot([st], n_inputs)).float(): the network input x
\* of state st, or the IndexError one_hot raises
Features(st) ==
  LET o == one_hot(<<st>>, n_inputs)
  IN  [raised |-> o.raised, x |-> ToTensor(o.a)]

\* tensor.max() over every entry
MaxOf(q) ==
  CHOOSE m \in {q[rr][b] : rr \in DOMAIN q, b \in Actions} :
    \A rr \in DOMAIN q, b \in Actions : q[rr][b] <= m

\* tensor.argmax() of a one-row tensor: the first maximal index
ArgMax(q) ==
  CHOOSE b \in Actions :
    /\ q[1][b] = MaxOf(q)
    /\ \A c \in Actions : q[1][c] = MaxOf(q) => b <= c

\* Q.argmax().item() if np.random.rand() > epsilon else
\* env.action_space.sample(), for the draw u and the sample smp; no draw
\* exceeds an epsilon of 1.0, which it is during the first two episodes
SelectAction(q, u, eps, smp) == IF u > eps THEN ArgMax(q) ELSE smp

\* mutant of TargetValue: the bootstrap term kept on a terminal step
TargetValue_unmasked(rw, q1, dn) == rw * Scale + Mul(gamma, MaxOf(q1))

\* r + gamma * Q1.max().item() * (not done)
TargetValue(rw, q1, dn) ==
  rw * Scale + Mul(gamma, MaxOf(q1)) * (IF dn THEN 0 ELSE 1)

\* mutant of clone: a tensor of zeros instead of a copy
clone_zeros(q) == ZeroRow

\* Q.clone()
clone(q) == q

\* q_target[0, act] = value
SetItem(q, act, value) == [q EXCEPT ![1][act] = value]

\* QNetwork.loss: torch.sum(torch.pow(q_targets - q_outputs, 2))
RECURSIVE SumSq(_, _, _)
SumSq(qt, q, n) ==
  IF n < 0 THEN 0
  ELSE Mul(qt[1][n] - q[1][n], qt[1][n] - q[1][n]) + SumSq(qt, q, n - 1)

Loss(q, qt) == SumSq(qt, q, n_outputs - 1)

\* d loss / d Q: the path through q_outputs, plus the path through the clone,
\* which the overwritten entry no longer has
GradOutput(q, qt, act) ==
  [b \in Actions |->
     (0 - 2) * (qt[1][b] - q[1][b])
       + (IF b = act THEN 0 ELSE 2 * (qt[1][b] - q[1][b]))]

\* mutant of Backprop: the output gradient not gated by the input features
Backprop_ungated(q, qt, act, x) ==
  [b \in Actions |-> [k \in States |-> GradOutput(q, qt, act)[b]]]

\* loss.backward(): d loss / d weight[b][k] = dQ[b] * x[k]
Backprop(q, qt, act, x) ==
  [b \in Actions |-> [k \in States |-> Mul(GradOutput(q, qt, act)[b], x[1][k])]]

\* mutant of SGDStep: an optimizer with weight decay 0.5
SGDStep_weight_decay(Wt, g) ==
  [b \in Actions |-> [k \in States |->
     Wt[b][k] - Mul(learning_rate, g[b][k] + Mul(Scale \div 2, Wt[b][k]))]]

\* optim.SGD(lr=learning_rate).step(): weight.add_(grad, alpha=-lr)
SGDStep(Wt, g) ==
  [b \in Actions |-> [k \in States |-> Wt[b][k] - Mul(learning_rate, g[b][k])]]

\* mutant of DecayFactor: the quotient inverted
DecayFactor_inverted(ep, n) ==
  Quot(Quot(ep * Scale, Quot(n * Scale, 20 * Scale)) + n * Scale, n * Scale)

\* num_episodes/(i/(num_episodes/20)+num_episodes)
DecayFactor(ep, n) ==
  Quot(n * Scale, Quot(ep * Scale, Quot(n * Scale, 20 * Scale)) + n * Scale)

\* epsilon *= factor
Decay(eps, ep, n) == Mul(eps, DecayFactor(ep, n))

\* the index range(n) yields next, after idx (the first one when the loop
\* variable has no value yet)
NextIndex(un, idx) == IF "i" \in un THEN 0 ELSE idx + 1

\* mutant of Breaks: the inner loop never left early
Breaks_never(dn) == FALSE

\* if done: break
Breaks(dn) == dn

\* mutant of EpisodeLength: the step index recorded as the length
EpisodeLength_index(step) == step

\* the value lengths.append(j+1) records
EpisodeLength(step) == step + 1

(* ------------------------------ environment ---------------------------- *)

\* env.reset()[0]: the start cell
EnvReset == 0

\* env.step(a) on the slippery lake, as the trainer sees it: what
\* (s1, r, done) may come back.  The move may end on any cell; the cell is
\* ice (not terminated, reward 0), a hole (terminated, reward 0) or the goal
\* (terminated, reward 1)
EnvStep(st, act) ==
  {[s1 |-> c, r |-> 0, done |-> FALSE] : c \in States}
    \cup {[s1 |-> c, r |-> rw, done |-> TRUE] : c \in States, rw \in {0, 1}}

\* the encoder not applied
NoOneHot ==
  [idx |-> <<>>, l |-> 0, out |-> [raised |-> "", a |-> <<>>],
   applied |-> FALSE]

\* no optimizer step has been taken yet
NoUpdate == [made |-> FALSE, s |-> 0, a |-> 0, q |-> 0, target |-> 0]

(* ------------------------------- training ------------------------------ *)

\* the try block is entered, the cells above it run in order: of its names
\* only s has a value, from s, _ = env.reset() of the cell that shows the
\* initial state
Entry ==
  /\ pc = "set_epsilon"
  /\ intAt = ""
  /\ unset = Names \ {"s"}
  /\ i = 0 /\ j = 0
  /\ s = EnvReset /\ a = 0 /\ s1 = 0 /\ r = 0 /\ done = FALSE
  /\ grad = ZeroMat
  /\ upd = NoUpdate
  /\ Q = ZeroRow /\ Q1 = ZeroRow /\ q_target = ZeroRow /\ loss = 0
  /\ epsilon = 0
  /\ ep_reward = 0 /\ ep_loss = 0
  /\ rewards = <<>> /\ lengths = <<>> /\ losses = <<>> /\ epsilons = <<>>

\* num_episodes = ...; qnet = QNetwork(n_inputs, n_outputs, learning_rate)
LoopInit ==
  /\ Entry
  /\ num_episodes \in 1 .. MaxEpisodes
  /\ W \in [Actions -> [States -> InitVals]]
  /\ W_before = W

Init == LoopInit /\ oh = NoOneHot

\* epsilon = epsilon_start
SetEpsilon ==
  /\ pc = "set_epsilon"
  /\ epsilon' = epsilon_start
  /\ unset' = unset \ {"epsilon"}
  /\ pc' = "set_lists"
  /\ UNCHANGED <<intAt, num_episodes, i, j, s, a, s1, r, done, W, grad,
                 W_before, upd, Q, Q1, q_target, loss, ep_reward, ep_loss,
                 rewards, lengths, losses, epsilons, oh>>

\* rewards, lengths, losses, epsilons = [], [], [], []
SetLists ==
  /\ pc = "set_lists"
  /\ rewards' = <<>>
  /\ lengths' = <<>>
  /\ losses' = <<>>
  /\ epsilons' = <<>>
  /\ unset' = unset \ {"rewards", "lengths", "losses", "epsilons"}
  /\ pc' = "print_start"
  /\ UNCHANGED <<intAt, num_episodes, i, j, s, a, s1, r, done, W, grad,
                 W_before, upd, Q, Q1, q_target, loss, epsilon, ep_reward,
                 ep_loss, oh>>

\* print('start training')
PrintStart ==
  /\ pc = "print_start"
  /\ pc' = "for_i"
  /\ UNCHANGED <<intAt, unset, num_episodes, i, j, s, a, s1, r, done, W,
                 grad, W_before, upd, Q, Q1, q_target, loss, epsilon,
                 ep_reward, ep_loss, rewards, lengths, losses, epsilons,
                 oh>>

\* for i in range(num_episodes): the next index, or the loop is left
ForI ==
  /\ pc = "for_i"
  /\ IF NextIndex(unset, i) < num_episodes
       THEN /\ i' = NextIndex(unset, i)
            /\ unset' = unset \ {"i"}
            /\ pc' = "reset"
       ELSE /\ pc' = "print_done"
            /\ UNCHANGED <<i, unset>>
  /\ UNCHANGED <<intAt, num_episodes, j, s, a, s1, r, done, W, grad,
                 W_before, upd, Q, Q1, q_target, loss, epsilon, ep_reward,
                 ep_loss, rewards, lengths, losses, epsilons, oh>>

\* s, ep_reward, ep_loss = env.reset()[0], 0, 0
Reset ==
  /\ pc = "reset"
  /\ s' = EnvReset
  /\ ep_reward' = 0
  /\ ep_loss' = 0
  /\ unset' = unset \ {"s", "ep_reward", "ep_loss"}
  /\ pc' = "for_j"
  /\ UNCHANGED <<intAt, num_episodes, i, j, a, s1, r, done, W, grad,
                 W_before, upd, Q, Q1, q_target, loss, epsilon, rewards,
                 lengths, losses, epsilons, oh>>

\* for j in range(episode_limit): the first index
ForJ ==
  /\ pc = "for_j"
  /\ IF 0 < episode_limit
       THEN /\ j' = 0
            /\ unset' = unset \ {"j"}
            /\ pc' = "zero_grad"
       ELSE /\ pc' = "decay"
            /\ UNCHANGED <<j, unset>>
  /\ UNCHANGED <<intAt, num_episodes, i, s, a, s1, r, done, W, grad,
                 W_before, upd, Q, Q1, q_target, loss, epsilon, ep_reward,
                 ep_loss, rewards, lengths, losses, epsilons, oh>>

\* 1. qnet.optimizer.zero_grad(): the gradient is None again
ZeroGrad ==
  /\ pc = "zero_grad"
  /\ grad' = ZeroMat
  /\ unset' = unset \cup {"grad"}
  /\ pc' = "forward"
  /\ UNCHANGED <<intAt, num_episodes, i, j, s, a, s1, r, done, W, W_before,
                 upd, Q, Q1, q_target, loss, epsilon, ep_reward, ep_loss,
                 rewards, lengths, losses, epsilons, oh>>

\* 1. Q = qnet(torch.from_numpy(one_hot([s], n_inputs)).float()); an
\* IndexError of one_hot is not caught by the except clause
Forward ==
  /\ pc = "forward"
  /\ IF Features(s).raised = ""
       THEN /\ Q' = forward(W, Features(s).x)
            /\ unset' = unset \ {"Q"}
            /\ pc' = "select"
       ELSE /\ pc' = "index_error"
            /\ UNCHANGED <<Q, unset>>
  /\ UNCHANGED <<intAt, num_episodes, i, j, s, a, s1, r, done, W, grad,
                 W_before, upd, Q1, q_target, loss, epsilon, ep_reward,
                 ep_loss, rewards, lengths, losses, epsilons, oh>>

\* 2. a = Q.argmax().item() if np.random.rand() > epsilon
\*    else env.action_space.sample()
Select ==
  /\ pc = "select"
  /\ \E u \in RandDraws, smp \in Actions :
       a' = SelectAction(Q, u, epsilon, smp)
  /\ unset' = unset \ {"a"}
  /\ pc' = "env_step"
  /\ UNCHANGED <<intAt, num_episodes, i, j, s, s1, r, done, W, grad,
                 W_before, upd, Q, Q1, q_target, loss, epsilon, ep_reward,
                 ep_loss, rewards, lengths, losses, epsilons, oh>>

\* s1, r, done, _, _ = env.step(a)
StepEnv ==
  /\ pc = "env_step"
  /\ \E o \in EnvStep(s, a) :
       s1' = o.s1 /\ r' = o.r /\ done' = o.done
  /\ unset' = unset \ {"s1", "r", "done"}
  /\ pc' = "lookahead"
  /\ UNCHANGED <<intAt, num_episodes, i, j, s, a, W, grad, W_before, upd,
                 Q, Q1, q_target, loss, epsilon, ep_reward, ep_loss,
                 rewards, lengths, losses, epsilons, oh>>

\* 3. with torch.no_grad(): Q1 = qnet(torch.from_numpy(one_hot([s1],
\* n_inputs)).float()); an IndexError of one_hot is not caught
Lookahead ==
  /\ pc = "lookahead"
  /\ IF Features(s1).raised = ""
       THEN /\ Q1' = forward(W, Features(s1).x)
            /\ unset' = unset \ {"Q1"}
            /\ pc' = "clone"
       ELSE /\ pc' = "index_error"
            /\ UNCHANGED <<Q1, unset>>
  /\ UNCHANGED <<intAt, num_episodes, i, j, s, a, s1, r, done, W, grad,
                 W_before, upd, Q, q_target, loss, epsilon, ep_reward,
                 ep_loss, rewards, lengths, losses, epsilons, oh>>

\* 4. q_target = Q.clone()
CloneQ ==
  /\ pc = "clone"
  /\ q_target' = clone(Q)
  /\ unset' = unset \ {"q_target"}
  /\ pc' = "target"
  /\ UNCHANGED <<intAt, num_episodes, i, j, s, a, s1, r, done, W, grad,
                 W_before, upd, Q, Q1, loss, epsilon, ep_reward, ep_loss,
                 rewards, lengths, losses, epsilons, oh>>

\* 4. q_target[0, a] = r + gamma * Q1.max().item() * (not done)
Target ==
  /\ pc = "target"
  /\ q_target' = SetItem(q_target, a, TargetValue(r, Q1, done))
  /\ pc' = "loss"
  /\ UNCHANGED <<intAt, unset, num_episodes, i, j, s, a, s1, r, done, W,
                 grad, W_before, upd, Q, Q1, loss, epsilon, ep_reward,
                 ep_loss, rewards, lengths, losses, epsilons, oh>>

\* 5. loss = qnet.loss(Q, q_target)
ComputeLoss ==
  /\ pc = "loss"
  /\ loss' = Loss(Q, q_target)
  /\ unset' = unset \ {"loss"}
  /\ pc' = "backward"
  /\ UNCHANGED <<intAt, num_episodes, i, j, s, a, s1, r, done, W, grad,
                 W_before, upd, Q, Q1, q_target, epsilon, ep_reward,
                 ep_loss, rewards, lengths, losses, epsilons, oh>>

\* 5. loss.backward(), with the input x the forward pass saved
Backward ==
  /\ pc = "backward"
  /\ grad' = Backprop(Q, q_target, a, Features(s).x)
  /\ unset' = unset \ {"grad"}
  /\ pc' = "optstep"
  /\ UNCHANGED <<intAt, num_episodes, i, j, s, a, s1, r, done, W, W_before,
                 upd, Q, Q1, q_target, loss, epsilon, ep_reward, ep_loss,
                 rewards, lengths, losses, epsilons, oh>>

\* 5. qnet.optimizer.step(): one in-place add on the one parameter tensor
OptimizerStep ==
  /\ pc = "optstep"
  /\ W' = SGDStep(W, grad)
  /\ W_before' = W
  /\ upd' = [made |-> TRUE, s |-> s, a |-> a, q |-> Q[1][a],
               target |-> q_target[1][a]]
  /\ pc' = "advance"
  /\ UNCHANGED <<intAt, unset, num_episodes, i, j, s, a, s1, r, done, grad,
                 Q, Q1, q_target, loss, epsilon, ep_reward, ep_loss,
                 rewards, lengths, losses, epsilons, oh>>

\* 6. s = s1
Advance ==
  /\ pc = "advance"
  /\ s' = s1
  /\ pc' = "add_reward"
  /\ UNCHANGED <<intAt, unset, num_episodes, i, j, a, s1, r, done, W, grad,
                 W_before, upd, Q, Q1, q_target, loss, epsilon, ep_reward,
                 ep_loss, rewards, lengths, losses, epsilons, oh>>

\* 6. ep_reward += r
AddReward ==
  /\ pc = "add_reward"
  /\ ep_reward' = ep_reward + r
  /\ pc' = "add_loss"
  /\ UNCHANGED <<intAt, unset, num_episodes, i, j, s, a, s1, r, done, W,
                 grad, W_before, upd, Q, Q1, q_target, loss, epsilon,
                 ep_loss, rewards, lengths, losses, epsilons, oh>>

\* 6. ep_loss += loss.item()
AddLoss ==
  /\ pc = "add_loss"
  /\ ep_loss' = ep_loss + loss
  /\ pc' = "check_done"
  /\ UNCHANGED <<intAt, unset, num_episodes, i, j, s, a, s1, r, done, W,
                 grad, W_before, upd, Q, Q1, q_target, loss, epsilon,
                 ep_reward, rewards, lengths, losses, epsilons, oh>>

\* 6. if done: break
CheckDone ==
  /\ pc = "check_done"
  /\ pc' = IF Breaks(done) THEN "decay" ELSE "next_j"
  /\ UNCHANGED <<intAt, unset, num_episodes, i, j, s, a, s1, r, done, W,
                 grad, W_before, upd, Q, Q1, q_target, loss, epsilon,
                 ep_reward, ep_loss, rewards, lengths, losses, epsilons,
                 oh>>

\* for j in range(episode_limit): the next index, or the loop is left
NextJ ==
  /\ pc = "next_j"
  /\ IF j + 1 < episode_limit
       THEN j' = j + 1 /\ pc' = "zero_grad"
       ELSE j' = j /\ pc' = "decay"
  /\ UNCHANGED <<intAt, unset, num_episodes, i, s, a, s1, r, done, W, grad,
                 W_before, upd, Q, Q1, q_target, loss, epsilon, ep_reward,
                 ep_loss, rewards, lengths, losses, epsilons, oh>>

\* epsilon *= num_episodes/(i/(num_episodes/20)+num_episodes)
DecayEpsilon ==
  /\ pc = "decay"
  /\ epsilon' = Decay(epsilon, i, num_episodes)
  /\ pc' = "app_eps"
  /\ UNCHANGED <<intAt, unset, num_episodes, i, j, s, a, s1, r, done, W,
                 grad, W_before, upd, Q, Q1, q_target, loss, ep_reward,
                 ep_loss, rewards, lengths, losses, epsilons, oh>>

\* epsilons.append(epsilon)
AppendEpsilon ==
  /\ pc = "app_eps"
  /\ epsilons' = Append(epsilons, epsilon)
  /\ pc' = "app_rew"
  /\ UNCHANGED <<intAt, unset, num_episodes, i, j, s, a, s1, r, done, W,
                 grad, W_before, upd, Q, Q1, q_target, loss, epsilon,
                 ep_reward, ep_loss, rewards, lengths, losses, oh>>

\* rewards.append(ep_reward)
AppendReward ==
  /\ pc = "app_rew"
  /\ rewards' = Append(rewards, ep_reward)
  /\ pc' = "app_len"
  /\ UNCHANGED <<intAt, unset, num_episodes, i, j, s, a, s1, r, done, W,
                 grad, W_before, upd, Q, Q1, q_target, loss, epsilon,
                 ep_reward, ep_loss, lengths, losses, epsilons, oh>>

\* lengths.append(j+1)
AppendLength ==
  /\ pc = "app_len"
  /\ lengths' = Append(lengths, EpisodeLength(j))
  /\ pc' = "app_loss"
  /\ UNCHANGED <<intAt, unset, num_episodes, i, j, s, a, s1, r, done, W,
                 grad, W_before, upd, Q, Q1, q_target, loss, epsilon,
                 ep_reward, ep_loss, rewards, losses, epsilons, oh>>

\* losses.append(ep_loss)
AppendLoss ==
  /\ pc = "app_loss"
  /\ losses' = Append(losses, ep_loss)
  /\ pc' = "report"
  /\ UNCHANGED <<intAt, unset, num_episodes, i, j, s, a, s1, r, done, W,
                 grad, W_before, upd, Q, Q1, q_target, loss, epsilon,
                 ep_reward, ep_loss, rewards, lengths, epsilons, oh>>

\* if (i+1) % val_freq == 0: print(... np.mean(rewards[-val_freq:]))
Report ==
  /\ pc = "report"
  /\ pc' = "for_i"
  /\ UNCHANGED <<intAt, unset, num_episodes, i, j, s, a, s1, r, done, W,
                 grad, W_before, upd, Q, Q1, q_target, loss, epsilon,
                 ep_reward, ep_loss, rewards, lengths, losses, epsilons,
                 oh>>

\* print('done')
PrintDone ==
  /\ pc = "print_done"
  /\ pc' = "end_try"
  /\ UNCHANGED <<intAt, unset, num_episodes, i, j, s, a, s1, r, done, W,
                 grad, W_before, upd, Q, Q1, q_target, loss, epsilon,
                 ep_reward, ep_loss, rewards, lengths, losses, epsilons,
                 oh>>

\* the try block is left without an exception
Finish ==
  /\ pc = "end_try"
  /\ pc' = "done"
  /\ UNCHANGED <<intAt, unset, num_episodes, i, j, s, a, s1, r, done, W,
                 grad, W_before, upd, Q, Q1, q_target, loss, epsilon,
                 ep_reward, ep_loss, rewards, lengths, losses, epsilons,
                 oh>>

\* except KeyboardInterrupt: print('interrupt'); the exception is raised while
\* control is at any statement of the try block, print('done') included
Interrupt ==
  /\ pc \notin {"done", "interrupted", "index_error"}
  /\ intAt' = pc
  /\ pc' = "interrupted"
  /\ UNCHANGED <<unset, num_episodes, i, j, s, a, s1, r, done, W, grad,
                 W_before, upd, Q, Q1, q_target, loss, epsilon, ep_reward,
                 ep_loss, rewards, lengths, losses, epsilons, oh>>

\* the statements of the try block
Train ==
  \/ SetEpsilon
  \/ SetLists
  \/ PrintStart
  \/ ForI
  \/ Reset
  \/ ForJ
  \/ ZeroGrad
  \/ Forward
  \/ Select
  \/ StepEnv
  \/ Lookahead
  \/ CloneQ
  \/ Target
  \/ ComputeLoss
  \/ Backward
  \/ OptimizerStep
  \/ Advance
  \/ AddReward
  \/ AddLoss
  \/ CheckDone
  \/ NextJ
  \/ DecayEpsilon
  \/ AppendEpsilon
  \/ AppendReward
  \/ AppendLength
  \/ AppendLoss
  \/ Report
  \/ PrintDone
  \/ Finish

Next == Train \/ Interrupt

Spec == Init /\ [][Next]_vars

\* a running interpreter executes the next statement of the try block
FairSpec == Init /\ [][Next]_vars /\ WF_vars(Train)

(* ----------------------- the encoder on its own ------------------------ *)

\* one_hot([ix], l) for every length l and every index ix from one below
\* the valid range -l .. l-1 to one above it
OneHotInit ==
  /\ Entry
  /\ num_episodes = 1
  /\ W = ZeroMat
  /\ W_before = W
  /\ oh \in {[idx |-> <<ix>>, l |-> len, out |-> NoOneHot.out,
              applied |-> FALSE] :
              len \in 1 .. MaxOneHotLen,
              ix \in (0 - MaxOneHotLen - 1) .. MaxOneHotLen}
  /\ oh.idx[1] >= 0 - oh.l - 1
  /\ oh.idx[1] <= oh.l

\* out = one_hot(idx, l)
OneHotApply ==
  /\ ~oh.applied
  /\ oh' = [oh EXCEPT !.out = one_hot(oh.idx, oh.l), !.applied = TRUE]
  /\ UNCHANGED <<pc, intAt, unset, num_episodes, i, j, s, a, s1, r, done,
                 W, grad, W_before, upd, Q, Q1, q_target, loss, epsilon,
                 ep_reward, ep_loss, rewards, lengths, losses, epsilons>>

OneHotSpec == OneHotInit /\ [][OneHotApply]_vars

(* ------------------------------- claims -------------------------------- *)

\* the statement control is at, also when an interrupt stopped it there
Pos == IF pc = "interrupted" THEN intAt ELSE pc

\* the statements of one step, in order
StepStmts == {"zero_grad", "forward", "select", "env_step", "lookahead",
              "clone", "target", "loss", "backward", "optstep", "advance",
              "add_reward", "add_loss", "check_done"}

\* the statements of one step that follow the overwrite of q_target[0, a]
AfterTarget == {"loss", "backward", "optstep", "advance", "add_reward",
                "add_loss", "check_done"}

\* the weights the current step started from
StepWeights ==
  IF Pos \in {"advance", "add_reward", "add_loss", "check_done"}
    THEN W_before ELSE W

\* the statements of one step between its forward pass and optimizer.step()
BeforeUpdate == {"select", "env_step", "lookahead", "clone", "target",
                 "loss", "backward", "optstep"}

\* the statements at which no step is in progress
BetweenSteps == {"set_epsilon", "set_lists", "print_start", "for_i", "reset",
                 "for_j", "zero_grad", "next_j", "decay", "app_eps",
                 "app_rew", "app_len", "app_loss", "report", "print_done",
                 "end_try"}

\* the entries in which two weight matrices differ
Changed(Wa, Wb) == {p \in Actions \X States : Wa[p[1]][p[2]] # Wb[p[1]][p[2]]}

\* C1: once q_target[0, a] is written, it is r + gamma * max(Q1) when the
\* step was not terminal and exactly r when it was, and Q1 is the estimate
\* of s1 under the weights the step started from (not those its own update
\* wrote).
C1_TargetValue ==
  /\ Pos \in AfterTarget =>
       q_target[1][a] =
         (IF done THEN r * Scale ELSE r * Scale + Mul(gamma, MaxOf(Q1)))
  /\ Pos \in {"clone", "target"} \cup AfterTarget =>
       \A b \in Actions : Q1[1][b] = StepWeights[b][s1]

\* a non-terminal step back into the same state, whose update has changed
\* the very estimate the lookahead had read
C1_Witness ==
  /\ pc = "advance" /\ ~done /\ s1 = s
  /\ MaxOf(Q1) > 0
  /\ W[a][s] # W_before[a][s]
  /\ Q1[1][a] = W_before[a][s]
  /\ q_target[1][a] = r * Scale + Mul(gamma, MaxOf(Q1))

\* C2: q_target starts as a copy of the prediction Q, and once its entry for
\* the taken action is written it still equals Q in every other coordinate,
\* so the two differ in at most one coordinate.
C2_TargetFrame ==
  /\ Pos = "target" => q_target = Q
  /\ Pos \in AfterTarget =>
       /\ DOMAIN q_target = DOMAIN Q
       /\ \A b \in Actions \ {a} : q_target[1][b] = Q[1][b]
       /\ Cardinality({b \in Actions : q_target[1][b] # Q[1][b]}) <= 1

\* a target that differs from a prediction with a non-zero untouched entry
C2_Witness ==
  /\ pc = "loss"
  /\ q_target[1][a] # Q[1][a]
  /\ \E b \in Actions \ {a} : Q[1][b] # 0 /\ q_target[1][b] = Q[1][b]

\* C3: an optimizer step taken in state s with action a leaves the estimate
\* of every other (state, action) pair what it was before the step, and
\* every weight but the one of (s, a); before the first step the weights
\* are the initial ones.
C3_OnlyTakenPairChanges ==
  /\ ~upd.made => W = W_before
  /\ Pos = "advance" => upd.made /\ upd.s = s /\ upd.a = a
  /\ upd.made =>
       /\ \A k \in States, b \in Actions :
            (k # upd.s \/ b # upd.a) =>
              forward(W, Features(k).x)[1][b]
                = forward(W_before, Features(k).x)[1][b]
       /\ Changed(W, W_before) \subseteq {<<upd.a, upd.s>>}

\* an update that moved the estimate of (s, a) while other weights are not 0
C3_Witness ==
  /\ pc = "advance"
  /\ W[a][s] # W_before[a][s]
  /\ \E b \in Actions \ {a} : W[b][s] # 0
  /\ \E k \in States \ {s} : W[a][k] # 0

\* C4 (amended): an interrupt may stop the try block at any statement, also
\* in the middle of a step; the weights after the stop are the initial ones
\* or carry the latest optimizer step in full, in one entry; a step whose
\* optimizer.step() has not run has left them untouched (they still give
\* the prediction Q of its forward pass).
C4_ParametersIntact ==
  pc = "interrupted" =>
    /\ ~upd.made => W = W_before
    /\ upd.made =>
         /\ W_before[upd.a][upd.s] = upd.q
         /\ W = [W_before EXCEPT ![upd.a][upd.s] =
                   upd.q + Mul(learning_rate, 2 * (upd.target - upd.q))]
    /\ intAt \in BeforeUpdate => \A b \in Actions : W[b][s] = Q[1][b]
    /\ intAt = "advance" =>
         /\ \A b \in Actions : W_before[b][s] = Q[1][b]
         /\ upd = [made |-> TRUE, s |-> s, a |-> a, q |-> Q[1][a],
                   target |-> q_target[1][a]]

\* interrupted between loss.backward() and optimizer.step() of a later step:
\* the gradient of the step is known and none of it has been applied
C4_Witness ==
  /\ pc = "interrupted" /\ intAt = "optstep"
  /\ grad[a][s] # 0
  /\ W[a][s] = Q[1][a]
  /\ upd.made /\ W # W_before

\* C4 as claimed: an interrupt takes effect only between steps or episodes,
\* never inside a step whose update is in progress, and leaves the weights
\* of the last completed update.
C4_InterruptOnlyBetweenSteps ==
  /\ pc = "interrupted" => intAt \in BetweenSteps
  /\ C4_ParametersIntact

\* what holds of the episodes in every state
C5_Episodes ==
  /\ pc # "index_error"
  /\ "j" \notin unset => j \in 0 .. (episode_limit - 1)
  /\ "i" \notin unset => i \in 0 .. (num_episodes - 1)
  /\ \A k \in 1 .. Len(lengths) : lengths[k] \in 1 .. episode_limit
  /\ Pos \in {"zero_grad", "forward", "select", "env_step"} /\ j > 0 => ~done
  /\ Pos = "next_j" => ~done
  /\ Pos \in {"decay", "app_eps", "app_rew", "app_len"} =>
       /\ done \/ j + 1 = episode_limit
       /\ ~done => j + 1 = episode_limit
  /\ Pos \in {"app_loss", "report"} => lengths[Len(lengths)] = j + 1
  /\ Pos \in StepStmts => Len(lengths) = i
  /\ pc = "done" =>
       /\ "i" \notin unset
       /\ i = num_episodes - 1
       /\ Len(lengths) = num_episodes

\* C5: no step follows a terminal step of its episode, an episode without a
\* terminal step ends after exactly episode_limit steps, every episode takes
\* 1..episode_limit steps, no statement fails on a state the environment
\* returned, and a run that is not interrupted ends, after exactly
\* num_episodes episodes.
C5_EpisodesEnd == [](C5_Episodes) /\ <>(pc \in {"done", "interrupted"})

\* a full run with an episode cut short by a terminal step and an episode
\* that ran into the step cap without one
C5_Witness ==
  /\ pc = "done" /\ num_episodes = MaxEpisodes
  /\ \E k \in 1 .. Len(lengths) : lengths[k] < episode_limit
  /\ lengths[Len(lengths)] = episode_limit /\ ~done

\* the episodes begun so far
Begun == IF "i" \in unset THEN 0 ELSE i + 1

\* C6: the recorded exploration rates never increase from one episode to the
\* next, starting from epsilon_start; epsilon is left alone during the steps
\* of an episode and decayed once after its last step, before it is
\* recorded; and the decay never raises a rate, for every budget n up to
\* MaxDecayN and every episode index below n.
C6_EpsilonNonIncreasing ==
  /\ \A k \in 1 .. Len(epsilons) :
       epsilons[k] <= (IF k = 1 THEN epsilon_start ELSE epsilons[k - 1])
  /\ Pos \in {"set_lists", "print_start"} => epsilon = epsilon_start
  /\ LET last == IF i = 0 THEN epsilon_start ELSE epsilons[i]
     IN  /\ Pos \in {"reset", "for_j", "next_j", "decay"} \cup StepStmts =>
              Len(epsilons) = i /\ epsilon = last
         /\ Pos = "app_eps" =>
              /\ Len(epsilons) = i /\ epsilon <= last
              /\ epsilon = Mul(last, DecayFactor(i, num_episodes))
         /\ Pos \in {"app_rew", "app_len", "app_loss", "report"} =>
              /\ Len(epsilons) = i + 1 /\ epsilon = epsilons[i + 1]
              /\ epsilon = Mul(last, DecayFactor(i, num_episodes))
  /\ Pos \in {"for_i", "print_done", "end_try", "done"} =>
       /\ Len(epsilons) = Begun
       /\ epsilon = (IF Begun = 0 THEN epsilon_start ELSE epsilons[Begun])
  /\ pc = "done" => Len(epsilons) = num_episodes
  /\ pc = "set_epsilon" =>
       \A n \in 1 .. MaxDecayN : \A ep \in 0 .. (n - 1) :
         /\ DecayFactor(ep, n) <= Scale
         /\ \A e \in RandDraws \cup {epsilon_start} : Decay(e, ep, n) <= e

\* two recorded rates: the first decay (episode index 0) leaves the rate at
\* epsilon_start, the second lowers it
C6_Witness ==
  /\ Len(epsilons) >= 2
  /\ epsilons[1] = epsilon_start
  /\ epsilons[2] < epsilons[1]
  /\ epsilons[2] > 0

\* C7: for every length l and index ix in 0..l-1, one_hot([ix], l) returns
\* one row of length l whose entry at ix is 1 and whose other entries are 0,
\* and no other index of the range gives the same row.
C7_OneHot ==
  (oh.applied /\ oh.idx[1] >= 0 /\ oh.idx[1] < oh.l) =>
    LET ix == oh.idx[1]
        out == oh.out.a
    IN  /\ oh.out.raised = ""
        /\ Len(out) = 1
        /\ DOMAIN out[1] = 0 .. (oh.l - 1)
        /\ out[1][ix] = 1
        /\ \A k \in 0 .. (oh.l - 1) : k # ix => out[1][k] = 0
        /\ Cardinality({k \in 0 .. (oh.l - 1) : out[1][k] # 0}) = 1
        /\ \A other \in 0 .. (oh.l - 1) :
             other # ix => one_hot(<<other>>, oh.l).a # out

\* the last index of a vector of several entries, encoded
C7_Witness ==
  /\ oh.applied /\ oh.l >= 3 /\ oh.idx[1] = oh.l - 1
  /\ oh.out.raised = ""
  /\ oh.out.a[1][oh.l - 1] = 1 /\ oh.out.a[1][0] = 0

\* how many entries a list holds of the episode being recorded when control
\* is at statement p: one if p is among the statements after its append
Recorded(p, after) == IF p \in after THEN 1 ELSE 0

\* the episodes that are recorded in all four lists
Completed ==
  IF "i" \in unset THEN 0
  ELSE IF Pos \in {"report", "for_i", "print_done", "end_try", "done"}
         THEN i + 1 ELSE i

\* C10 (amended): when training has stopped after the lists were created,
\* losses holds one entry per completed episode; the other lists hold as
\* many, except that a list appended before the statement an interrupt fell
\* at holds one more (the order is epsilons, rewards, lengths, losses);
\* every recorded length is in 1..episode_limit; after a normal end all
\* four hold num_episodes entries.  An interrupt before the lists are
\* created leaves them without a value.
C10_StatisticsLengths ==
  pc \in {"done", "interrupted"} =>
    /\ "losses" \in unset <=> Pos \in {"set_epsilon", "set_lists"}
    /\ {"rewards", "lengths", "losses", "epsilons"} \cap unset # {} =>
         {"rewards", "lengths", "losses", "epsilons"} \subseteq unset
    /\ "losses" \notin unset =>
         /\ Len(losses) = Completed
         /\ Len(lengths) = Completed + Recorded(Pos, {"app_loss"})
         /\ Len(rewards) = Completed + Recorded(Pos, {"app_len", "app_loss"})
         /\ Len(epsilons) =
              Completed + Recorded(Pos, {"app_rew", "app_len", "app_loss"})
         /\ \A k \in 1 .. Len(lengths) : lengths[k] \in 1 .. episode_limit
    /\ pc = "done" =>
         /\ Len(losses) = num_episodes /\ Len(lengths) = num_episodes
         /\ Len(rewards) = num_episodes /\ Len(epsilons) = num_episodes

\* interrupted between rewards.append and lengths.append of a later episode
C10_Witness ==
  /\ pc = "interrupted" /\ intAt = "app_len" /\ i >= 1
  /\ Len(epsilons) = i + 1 /\ Len(rewards) = i + 1
  /\ Len(lengths) = i /\ Len(losses) = i

\* C10 as claimed: when training has stopped, normally or by an interrupt at
\* any point, the four lists have the same length, the number of completed
\* episodes, every recorded length is in 1..episode_limit, and after a
\* normal end the length is num_episodes.
C10_ListsAlwaysEqual ==
  pc \in {"done", "interrupted"} =>
    /\ Len(rewards) = Len(losses) /\ Len(lengths) = Len(losses)
    /\ Len(epsilons) = Len(losses)
    /\ Len(losses) = Completed
    /\ \A k \in 1 .. Len(lengths) : lengths[k] \in 1 .. episode_limit
    /\ pc = "done" => Len(lengths) = num_episodes

=============================================================================
